---- MODULE Spec2Model ----
(***************************************************************************)
(* Model of dashboard.py: the Streamlit NDVI dashboard.                    *)
(*                                                                         *)
(* The script is executed top to bottom on every page run.  Its steps are  *)
(* get_aoi (with st.stop when no AOI), the year-range slider, the call of  *)
(* get_ndvi_data, the "if not df.empty" chart block and the export block.  *)
(* The remote Earth Engine service is the environment: for each year it    *)
(* answers the reduced NDVI scalar with a number, with null, or with an    *)
(* error; get_ndvi_data asks for all years in ONE getInfo request.         *)
(*                                                                         *)
(* Numbers that Python holds as floats are exact rationals here            *)
(* ([num, den], lowest terms), so the arithmetic laws are checked without  *)
(* rounding; the floating point error of the real code is not modelled.    *)
(***************************************************************************)
EXTENDS Integers, Sequences, FiniteSets, TLC

VARIABLES
    now,            \* datetime.datetime.now().year of this run
    draw_data,      \* what st_folium returned for the draw map
    source,         \* the remote data source: year -> answer of the reduction
    pc,             \* position of the script
    aoi,            \* module variable aoi (get_aoi())
    year_range,     \* module variable year_range (the slider's pair)
    call,           \* arguments of the last get_ndvi_data call
    fetch,          \* how the last get_ndvi_data call ended
    df,             \* the DataFrame, as a record of columns
    ndviRequests,   \* getInfo requests sent by get_ndvi_data
    selected_img,   \* TRUE when the name selected_img is bound
    selected_year,  \* the year of the second slider, 0 while unbound
    table_shown,    \* TRUE when st.dataframe rendered the table (line 113)
    errorShown      \* TRUE when st.error / st.exception was rendered

vars == <<now, draw_data, source, pc, aoi, year_range, call, fetch, df,
          ndviRequests, selected_img, selected_year, table_shown, errorShown>>

----------------------------------------------------------------------------
(* Bounds of the model *)

NowMin == 2023      \* earliest current year explored
NowMax == 2025      \* latest current year explored
WinStart == 2021    \* first year for which the data source may hold data
WinLen == 2         \* number of years for which the data source may hold data
MaxCalls == 3       \* direct calls of get_ndvi_data in the library harness

(* Program constants *)

SliderMin == 2000       \* min_value of the year slider, first of range(2000, ..)
DefaultLo == 2010       \* slider default value[0]
DefaultHi == 2023       \* slider default value[1]
ScaleFactor == 10000    \* NDVI normalisation divisor
BiomassFactor == 10000  \* biomass = 10000 * ndvi

----------------------------------------------------------------------------
(* Exact rational arithmetic standing for Python floats *)

Abs(n) == IF n < 0 THEN -n ELSE n

RECURSIVE GCD(_, _)
GCD(a, b) == IF b = 0 THEN a ELSE GCD(b, a % b)

Rat(n, d) ==
    LET g == GCD(Abs(n), Abs(d))
        s == IF d < 0 THEN -1 ELSE 1
    IN  [num |-> (s * n) \div g, den |-> (s * d) \div g]

FromInt(n) == Rat(n, 1)
RMul(a, b) == Rat(a.num * b.num, a.den * b.den)
RDivInt(a, k) == Rat(a.num, a.den * k)

CarbonFraction == Rat(1, 2)      \* 0.5
CO2Factor == Rat(367, 100)       \* 3.67

----------------------------------------------------------------------------
(* Python helpers *)

\* Range with its end taken one too far
RangePastEnd(a, b) == [i \in 1..(IF b + 1 > a THEN b + 1 - a ELSE 0) |-> a + i - 1]

\* list(range(a, b))
Range(a, b) == [i \in 1..(IF b > a THEN b - a ELSE 0) |-> a + i - 1]

\* min(s) and max(s) of a non-empty sequence of integers
SeqMin(s) == CHOOSE m \in {s[i] : i \in DOMAIN s} : \A i \in DOMAIN s : m <= s[i]
SeqMax(s) == CHOOSE m \in {s[i] : i \in DOMAIN s} : \A i \in DOMAIN s : m >= s[i]

----------------------------------------------------------------------------
(* The drawing returned by the map widget *)

\* A GeoJSON geometry: its type and the list of its points.  NoGeom is None.
NoGeom == [type |-> "None", coordinates |-> <<>>]
Square == [type |-> "Polygon",
           coordinates |-> << <<85, 20>>, <<86, 20>>, <<86, 21>>, <<85, 21>>, <<85, 20>> >>]
FlatPolygon == [type |-> "Polygon",
                coordinates |-> << <<85, 20>>, <<86, 20>>, <<87, 20>>, <<85, 20>> >>]
Marker == [type |-> "Point", coordinates |-> << <<85, 20>> >>]
NoCoords == [type |-> "Polygon", coordinates |-> <<>>]

Geoms == {NoGeom, NoCoords, Marker, FlatPolygon, Square}

\* draw_data: None (present = FALSE) or a dict with the list "all_drawings"
DrawDatas ==
    {[present |-> FALSE, all_drawings |-> <<>>],
     [present |-> TRUE, all_drawings |-> <<>>]}
    \cup {[present |-> TRUE, all_drawings |-> << [geometry |-> g] >>] : g \in Geoms}
    \cup {[present |-> TRUE, all_drawings |-> << [geometry |-> Square], [geometry |-> Marker] >>]}

\* get_aoi(): the first drawing's geometry when it has coordinates, else None
get_aoi(dd) ==
    IF dd.present /\ dd.all_drawings # <<>>
    THEN LET geom == dd.all_drawings[1].geometry
         IN  IF geom # NoGeom /\ geom.coordinates # <<>> THEN geom ELSE NoGeom
    ELSE NoGeom

----------------------------------------------------------------------------
(* The remote data source *)

RawVals == {-2000, 0, 6000}

NullAnswer == [kind |-> "null", v |-> 0]
ErrorAnswer == [kind |-> "error", v |-> 0]
Answers == {[kind |-> "value", v |-> r] : r \in RawVals} \cup {NullAnswer, ErrorAnswer}

WinYears == WinStart..(WinStart + WinLen - 1)

\* A source holds an answer for each year of its window (inWindow).  Any other
\* year has no imagery: its mean image has no NDVI band, and whether
\* stats.get('NDVI') then yields null or fails is the service's doing, so a
\* source fixes either outcome (noImagery).
Sources == [inWindow : [WinYears -> Answers], noImagery : {NullAnswer, ErrorAnswer}]

\* stats.get('NDVI') of the image of year y, as the service evaluates it
Reduce(src, y) == IF y \in DOMAIN src.inWindow THEN src.inWindow[y] ELSE src.noImagery

----------------------------------------------------------------------------
(* get_ndvi_data *)

EmptyDf == [year |-> <<>>, NDVI |-> <<>>, Biomass |-> <<>>, Carbon |-> <<>>, CO2 |-> <<>>]

\* fc.getInfo().get('features', []): one feature per image, in the order of
\* the list the collection was built from; its properties are year and NDVI.
Features(src, years) == [i \in DOMAIN years |-> [year |-> years[i], NDVI |-> Reduce(src, years[i])]]

\* the evaluation of the mapped collection fails when any element fails
GetInfoRaises(src, years) == \E i \in DOMAIN years : Reduce(src, years[i]).kind = "error"

\* HasNdvi testing truthiness instead of "is not None": a raw 0 is dropped
HasNdviTruthy(props) == props.NDVI.kind # "null" /\ props.NDVI.v # 0

\* f['properties'].get('NDVI') is not None
HasNdvi(props) == props.NDVI.kind # "null"

\* records = [f['properties'] for f in props if ... is not None]
Records(props) == SelectSeq(props, HasNdvi)

\* pd.DataFrame(records): columns year and NDVI, one row per record
DataFrame(records) ==
    [EmptyDf EXCEPT !.year = [i \in DOMAIN records |-> records[i].year],
                    !.NDVI = [i \in DOMAIN records |-> FromInt(records[i].NDVI.v)]]

\* get_ndvi_data(aoi, start_year, end_year) against the source src: how it
\* ends, the DataFrame it returns and the getInfo requests it sent.
get_ndvi_data(src, a, start_year, end_year) ==
    LET years == Range(start_year, end_year + 1)
    IN  IF GetInfoRaises(src, years)
        THEN [outcome |-> "raised", df |-> EmptyDf, requests |-> 1]
        ELSE [outcome |-> "returned",
              df |-> DataFrame(Records(Features(src, years))),
              requests |-> 1]

----------------------------------------------------------------------------
(* Biomass and carbon *)

\* estimate_biomass with co2 taken from the biomass instead of the carbon
estimate_biomass_co2_of_biomass(ndvi) ==
    LET biomass == RMul(FromInt(BiomassFactor), ndvi)
        carbon == RMul(CarbonFraction, biomass)
        co2 == RMul(CO2Factor, biomass)
    IN  <<biomass, carbon, co2>>

\* estimate_biomass(ndvi) -> (biomass, carbon, co2)
estimate_biomass(ndvi) ==
    LET biomass == RMul(FromInt(BiomassFactor), ndvi)
        carbon == RMul(CarbonFraction, biomass)
        co2 == RMul(CO2Factor, carbon)
    IN  <<biomass, carbon, co2>>

\* Normalize with the division applied twice
NormalizeTwice(col) == [i \in DOMAIN col |-> RDivInt(RDivInt(col[i], ScaleFactor), ScaleFactor)]

\* pd.to_numeric(df['NDVI']) / 10000
Normalize(col) == [i \in DOMAIN col |-> RDivInt(col[i], ScaleFactor)]

\* zip(*triples): the three columns of a sequence of triples
Zip3(triples) == [k \in 1..3 |-> [i \in DOMAIN triples |-> triples[i][k]]]

\* lines 100-102: the derived columns of a non-empty DataFrame
WithDerived(d) ==
    LET ndvi == Normalize(d.NDVI)
        cols == Zip3([i \in DOMAIN ndvi |-> estimate_biomass(ndvi[i])])
    IN  [d EXCEPT !.NDVI = ndvi, !.Biomass = cols[1], !.Carbon = cols[2], !.CO2 = cols[3]]

----------------------------------------------------------------------------
(* The year slider *)

\* years[-1] of list(range(2000, now)); defined when the list is not empty
SliderMax(n) == LET years == Range(SliderMin, n) IN years[Len(years)]

\* line 54-55 raises IndexError at years[-1] when the list is empty
SliderRaises(n) == Range(SliderMin, n) = <<>>

\* the default value (2010, 2023) lies outside [min_value, max_value].  What
\* st.slider does with such a default is not fixed by this code: it raises, or
\* it widens its bounds to hold the default; both outcomes are taken.
DefaultOutOfBounds(n) == ~(SliderMin <= DefaultLo /\ DefaultHi <= SliderMax(n))

\* the bounds the slider works with when it accepts its default
SliderLow == IF DefaultLo < SliderMin THEN DefaultLo ELSE SliderMin
SliderHigh(n) == IF DefaultHi > SliderMax(n) THEN DefaultHi ELSE SliderMax(n)

\* the pairs a range slider can return: the default or any position
SliderValues(n) == {<<lo, hi>> \in (SliderLow..SliderHigh(n)) \X (SliderLow..SliderHigh(n)) : lo <= hi}

----------------------------------------------------------------------------
(* The page run *)

Nows == {SliderMin} \cup (NowMin..NowMax)

NoCall == [start |-> 0, end |-> 0, outcome |-> "none", df |-> EmptyDf, requests |-> 0]

\* the state of the script's names before its first line runs
Fresh ==
    /\ year_range = <<0, 0>>
    /\ call = NoCall
    /\ fetch = "none"
    /\ df = EmptyDf
    /\ ndviRequests = 0
    /\ selected_img = FALSE
    /\ selected_year = 0
    /\ table_shown = FALSE
    /\ errorShown = FALSE

Init ==
    /\ now \in Nows
    /\ draw_data \in DrawDatas
    /\ source \in Sources
    /\ pc = "get_aoi"
    /\ aoi = NoGeom
    /\ Fresh

\* lines 46-50: aoi = get_aoi(); without an AOI the warning is shown and
\* st.stop() ends the run
GetAoi ==
    /\ pc = "get_aoi"
    /\ aoi' = get_aoi(draw_data)
    /\ pc' = IF aoi' = NoGeom THEN "stopped" ELSE "slider"
    /\ UNCHANGED <<now, draw_data, source, year_range, call, fetch, df, ndviRequests,
                   selected_img, selected_year, table_shown, errorShown>>

\* lines 54-55: the year-range slider; an exception ends the run
YearSlider ==
    /\ pc = "slider"
    /\ IF SliderRaises(now)
       THEN /\ pc' = "crashed"
            /\ UNCHANGED year_range
       ELSE \E rejects \in (IF DefaultOutOfBounds(now) THEN BOOLEAN ELSE {FALSE}) :
               IF rejects
               THEN /\ pc' = "crashed"
                    /\ UNCHANGED year_range
               ELSE /\ \E v \in SliderValues(now) : year_range' = v
                    /\ pc' = "fetch"
    /\ UNCHANGED <<now, draw_data, source, aoi, call, fetch, df, ndviRequests,
                   selected_img, selected_year, table_shown, errorShown>>

\* lines 95-96: df = get_ndvi_data(aoi, year_range[0], year_range[1]); an
\* exception of getInfo is not caught and ends the run
FetchNdvi ==
    /\ pc = "fetch"
    /\ LET r == get_ndvi_data(source, aoi, year_range[1], year_range[2])
       IN  /\ call' = [start |-> year_range[1], end |-> year_range[2],
                       outcome |-> r.outcome, df |-> r.df, requests |-> r.requests]
           /\ fetch' = r.outcome
           /\ ndviRequests' = ndviRequests + r.requests
           /\ df' = r.df
           /\ pc' = IF r.outcome = "raised" THEN "crashed" ELSE "chart"
    /\ UNCHANGED <<now, draw_data, source, aoi, year_range, selected_img,
                   selected_year, table_shown, errorShown>>

\* the second slider (line 117) has min_value = max_value when the table's
\* years are all one year; whether st.slider accepts that is not fixed by this
\* code, so both outcomes are taken
YearSliderMayRaise(d) == SeqMin(d.year) = SeqMax(d.year)

\* lines 99-139: the chart block, run only when df is not empty.  The table
\* is rendered at line 113; an exception of the second slider (line 117) or of
\* the remote getMapId (line 131) is not caught and ends the run there.
NdviChart ==
    /\ pc = "chart"
    /\ IF df.year # <<>>
       THEN /\ df' = WithDerived(df)
            /\ table_shown' = TRUE
            /\ \E sliderRaises \in (IF YearSliderMayRaise(df) THEN BOOLEAN ELSE {FALSE}) :
                  IF sliderRaises
                  THEN /\ UNCHANGED <<selected_year, selected_img>>
                       /\ pc' = "crashed"
                  ELSE /\ \E y \in SeqMin(df.year)..SeqMax(df.year) : selected_year' = y
                       /\ selected_img' = TRUE
                       /\ \E mapIdRaises \in BOOLEAN :
                             pc' = IF mapIdRaises THEN "crashed" ELSE "export"
       ELSE /\ UNCHANGED <<df, table_shown, selected_year, selected_img>>
            /\ pc' = "export"
    /\ UNCHANGED <<now, draw_data, source, aoi, year_range, call, fetch, ndviRequests,
                   errorShown>>

\* lines 143-155: the download link; any exception of the try block, the
\* NameError of an unbound selected_img included, is shown with st.error
Export ==
    /\ pc = "export"
    /\ \E thumbFails \in BOOLEAN :
          errorShown' = (~selected_img \/ thumbFails)
    /\ pc' = "done"
    /\ UNCHANGED <<now, draw_data, source, aoi, year_range, call, fetch, df, ndviRequests,
                   selected_img, selected_year, table_shown>>

Next == GetAoi \/ YearSlider \/ FetchNdvi \/ NdviChart \/ Export

Spec == Init /\ [][Next]_vars

----------------------------------------------------------------------------
(* get_ndvi_data called directly, as a library function, several times *)

\* the years a direct call may name: the source's window and the year before it
FnYears == (WinStart - 1)..(WinStart + WinLen - 1)

InitFn ==
    /\ now = NowMax
    /\ draw_data = [present |-> TRUE, all_drawings |-> << [geometry |-> Square] >>]
    /\ source \in Sources
    /\ pc = "lib"
    /\ Fresh
    /\ aoi = Square

CallGetNdviData ==
    /\ pc = "lib"
    /\ ndviRequests < MaxCalls
    /\ \E s \in FnYears, e \in FnYears :
          LET r == get_ndvi_data(source, aoi, s, e)
              c == [start |-> s, end |-> e, outcome |-> r.outcome, df |-> r.df,
                    requests |-> r.requests]
          IN  /\ call' = c
              /\ fetch' = r.outcome
              /\ df' = r.df
              /\ ndviRequests' = ndviRequests + r.requests
    /\ UNCHANGED <<now, draw_data, source, pc, aoi, year_range, selected_img,
                   selected_year, table_shown, errorShown>>

NextFn == CallGetNdviData

SpecFn == InitFn /\ [][NextFn]_vars

----------------------------------------------------------------------------
(* Properties of get_ndvi_data, checked under SpecFn *)

Called == call.outcome # "none"
Requested == call.start..call.end
RowsOfYear(d, y) == {i \in DOMAIN d.year : d.year[i] = y}

\* C1: the years of the returned records lie in the requested range and are
\* strictly increasing (so no year appears twice).
YearsStrictlyIncreasingInRange ==
    call.outcome = "returned" =>
        /\ \A i \in DOMAIN df.year : call.start <= df.year[i] /\ df.year[i] <= call.end
        /\ \A i, j \in DOMAIN df.year : i < j => df.year[i] < df.year[j]

\* C1 witness: a call returned two records and skipped a requested year.
WitnessTwoYearsOneSkipped ==
    /\ call.outcome = "returned"
    /\ Len(df.year) = 2
    /\ call.end - call.start + 1 > 2

\* C2: the returned table has exactly one record for a requested year whose
\* reduced scalar is defined (0 included) and none for a year whose scalar is
\* missing; no record carries a missing NDVI.
OneRecordPerDefinedYear ==
    call.outcome = "returned" =>
        /\ \A y \in Requested :
              Cardinality(RowsOfYear(df, y)) =
                  IF Reduce(source, y).kind = "value" THEN 1 ELSE 0
        /\ \A i \in DOMAIN df.year :
              /\ Reduce(source, df.year[i]).kind = "value"
              /\ df.NDVI[i] = FromInt(Reduce(source, df.year[i]).v)

\* C2 witness: a returned table keeps a year whose raw value is 0 and omits a
\* requested year without data.
WitnessZeroKeptMissingOmitted ==
    /\ call.outcome = "returned"
    /\ \E y \in Requested : Reduce(source, y).kind = "null" /\ RowsOfYear(df, y) = {}
    /\ \E i \in DOMAIN df.year : Reduce(source, df.year[i]).v = 0 /\ df.NDVI[i].num = 0

\* C3 as claimed: a call with startYear > endYear fails with InvalidRange and
\* sends no request to the remote service.
InvalidRangeRejected ==
    (Called /\ call.start > call.end) =>
        (call.outcome = "InvalidRange" /\ call.requests = 0)

\* C6 as claimed: when the service fails for one requested year, the call
\* still returns and its table holds the records of all other requested years
\* that have a value.
FailedYearOmittedOthersKept ==
    (Called /\ \E y \in Requested : Reduce(source, y).kind = "error") =>
        /\ call.outcome = "returned"
        /\ \A y \in Requested :
              Reduce(source, y).kind = "value" => RowsOfYear(call.df, y) # {}

----------------------------------------------------------------------------
(* Properties of the page run, checked under Spec *)

\* twice the signed area of a ring of points (shoelace formula)
RECURSIVE Shoelace(_, _)
Shoelace(c, i) ==
    IF i >= Len(c) THEN 0
    ELSE c[i][1] * c[i + 1][2] - c[i + 1][1] * c[i][2] + Shoelace(c, i + 1)

ZeroArea(g) == g.type # "Polygon" \/ Shoelace(g.coordinates, 1) = 0

\* the drawn area of interest is empty or degenerate
EmptyOrDegenerate(dd) ==
    \/ ~dd.present
    \/ dd.all_drawings = <<>>
    \/ dd.all_drawings[1].geometry = NoGeom
    \/ dd.all_drawings[1].geometry.coordinates = <<>>
    \/ ZeroArea(dd.all_drawings[1].geometry)

TableShown == table_shown

\* C4 as claimed: with an empty or degenerate area of interest the run ends
\* at the AOI check (the InvalidGeometry outcome) and no NDVI request is sent:
\* it never gets as far as the aggregation.
DegenerateAoiRejected ==
    (EmptyOrDegenerate(draw_data) /\ (pc = "stopped" \/ fetch # "none")) =>
        (pc = "stopped" /\ ndviRequests = 0)

\* C5 as claimed: when every requested year was skipped for lack of data, the
\* finished run has reported no error.
AllYearsSkippedIsNoError ==
    (pc = "done" /\ fetch = "returned" /\ df.year = <<>>) => ~errorShown

\* C7: in every row of the shown table biomass = 10000 * NDVI,
\* carbon = 0.5 * biomass and co2 = 3.67 * carbon, for that row's NDVI.
DerivedMetricLaw ==
    TableShown =>
        /\ Len(df.Biomass) = Len(df.NDVI)
        /\ Len(df.Carbon) = Len(df.NDVI)
        /\ Len(df.CO2) = Len(df.NDVI)
        /\ \A i \in DOMAIN df.NDVI :
              /\ df.Biomass[i].num * df.NDVI[i].den
                    = 10000 * df.NDVI[i].num * df.Biomass[i].den
              /\ 2 * df.Carbon[i].num * df.Biomass[i].den
                    = df.Biomass[i].num * df.Carbon[i].den
              /\ 100 * df.CO2[i].num * df.Carbon[i].den
                    = 367 * df.Carbon[i].num * df.CO2[i].den

\* C7 witness: a shown table with a negative and a positive NDVI row.
WitnessDerivedBothSigns ==
    /\ pc = "done"
    /\ \E i, j \in DOMAIN df.NDVI :
          /\ df.NDVI[i].num < 0 /\ df.CO2[i].num < 0
          /\ df.NDVI[j].num > 0 /\ df.CO2[j].num > 0

\* C8: in every row of the shown table the NDVI is the raw reduced value of
\* the row's year divided by 10000.
NormalizationLaw ==
    TableShown =>
        \A i \in DOMAIN df.year :
            /\ Reduce(source, df.year[i]).kind = "value"
            /\ df.NDVI[i].num * 10000 = Reduce(source, df.year[i]).v * df.NDVI[i].den

\* C8 witness: a shown row of raw value 6000 holds the NDVI 3/5.
WitnessNormalizedRow ==
    /\ pc = "done"
    /\ \E i \in DOMAIN df.year :
          /\ Reduce(source, df.year[i]).v = 6000
          /\ df.NDVI[i] = [num |-> 3, den |-> 5]

\* C10 as claimed: the range handed to get_ndvi_data by the page run has
\* 2000 <= startYear <= endYear <= the year before the current one, the last
\* year of list(range(2000, now)).
YearRangeInvariant ==
    fetch # "none" =>
        /\ call.start = year_range[1] /\ call.end = year_range[2]
        /\ 2000 <= call.start
        /\ call.start <= call.end
        /\ call.end <= now - 1

====
